---------------------------- MODULE Spec2Model ----------------------------
(***************************************************************************)
(* BeeKeeper (src/beekeeper.py): a Grandfather-Father-Son backup retention *)
(* tool.  One run of main(): argument validation, process_backups          *)
(* (date resolution and retention classification), print_results and       *)
(* delete_backups (dry run, confirmation prompt, per-item removal).        *)
(*                                                                         *)
(* Dates are <<year, month, day>> triples; file names and typed answers    *)
(* are sequences of one-character strings, so that the regular-expression  *)
(* search, strptime and str.lower are computed character by character.     *)
(***************************************************************************)
EXTENDS Integers, Sequences, FiniteSets, TLC

VARIABLES
    args,          \* the parsed command line (argparse namespace)
    listing,       \* os.listdir(filepath), in the order the OS returns it
    current_date,  \* datetime.now().date()
    fs,            \* names of the entries that exist under filepath
    pc,            \* position of main()
    scanned,       \* TRUE once process_backups has listed the directory
    preserved,     \* process_backups' first result: <<[name, date, reason]>>
    deleted,       \* process_backups' second result: <<[name, date]>>
    report,        \* <<the three counts print_results prints>>, <<>> before
    confirm,       \* what the user typed at the prompt
    i,             \* delete_backups' loop counter (enumerate(deleted, 1))
    attempts,      \* remove_directory calls so far: <<[name, ok]>>
    log,           \* messages of delete_backups / remove_directory
    summary,       \* <<the number in "Deletion complete. N backup(s) processed.">>
    exit_status,   \* exit status of the process
    artifact,      \* date resolution on its own: the entry being resolved
    backup_date    \* date resolution on its own: the resolved BackupDate

vars == <<args, listing, current_date, fs, pc, scanned, preserved, deleted,
          report, confirm, i, attempts, log, summary, exit_status,
          artifact, backup_date>>

\* Python's None
None == <<>>

(***************************************************************************)
(* datetime.date arithmetic (proleptic Gregorian calendar)                 *)
(***************************************************************************)
IsLeap(y) == (y % 4 = 0) /\ ((y % 100 # 0) \/ (y % 400 = 0))

DaysInMonth(y, m) ==
    IF m = 2 THEN (IF IsLeap(y) THEN 29 ELSE 28)
    ELSE IF m \in {4, 6, 9, 11} THEN 30 ELSE 31

DaysBeforeYear(y) ==
    LET p == y - 1 IN p * 365 + (p \div 4) - (p \div 100) + (p \div 400)

RECURSIVE DaysBeforeMonth(_, _)
DaysBeforeMonth(y, m) ==
    IF m = 1 THEN 0 ELSE DaysBeforeMonth(y, m - 1) + DaysInMonth(y, m - 1)

\* date.toordinal(): 0001-01-01 is day 1, a Monday
ToOrdinal(d) == DaysBeforeYear(d[1]) + DaysBeforeMonth(d[1], d[2]) + d[3]

\* datetime.date(y, m, d) accepts exactly these
ValidDate(y, m, d) ==
    /\ y >= 1 /\ y <= 9999
    /\ m >= 1 /\ m <= 12
    /\ d >= 1 /\ d <= DaysInMonth(y, m)

\* ordinal of the Monday of ISO week 1 of year y
IsoWeek1Monday(y) ==
    LET firstday     == ToOrdinal(<<y, 1, 1>>)
        firstweekday == (firstday + 6) % 7
        monday       == firstday - firstweekday
    IN  IF firstweekday > 3 THEN monday + 7 ELSE monday

\* date.isocalendar()[0:2] = <<ISO year, ISO week number>>
IsoCalendar(d) ==
    LET today == ToOrdinal(d)
        y     == d[1]
        off   == today - IsoWeek1Monday(y)
    IN  IF off < 0
        THEN <<y - 1, ((today - IsoWeek1Monday(y - 1)) \div 7) + 1>>
        ELSE IF (off \div 7) >= 52 /\ today >= IsoWeek1Monday(y + 1)
             THEN <<y + 1, 1>>
             ELSE <<y, (off \div 7) + 1>>

\* (current_date - file_date).days
Age(file_date, today) == ToOrdinal(today) - ToOrdinal(file_date)

(***************************************************************************)
(* parse_date_from_filename                                                *)
(***************************************************************************)
Digits == {"0", "1", "2", "3", "4", "5", "6", "7", "8", "9"}

DigitVal(c) ==
    CASE c = "0" -> 0 [] c = "1" -> 1 [] c = "2" -> 2 [] c = "3" -> 3
      [] c = "4" -> 4 [] c = "5" -> 5 [] c = "6" -> 6 [] c = "7" -> 7
      [] c = "8" -> 8 [] c = "9" -> 9

\* A pattern is a sequence of tokens: "D" is \d, anything else is a literal.
RepD(n) == [k \in 1..n |-> "D"]

patterns == <<
    RepD(4) \o <<"-">> \o RepD(2) \o <<"-">> \o RepD(2),
    RepD(4) \o <<"_">> \o RepD(2) \o <<"_">> \o RepD(2),
    RepD(8),
    RepD(4) \o <<"-">> \o RepD(2) \o <<"-">> \o RepD(2) \o <<"_">> \o RepD(2) \o <<"-">> \o RepD(2),
    RepD(4) \o <<"_">> \o RepD(2) \o <<"_">> \o RepD(2) \o <<"_">> \o RepD(2) \o <<"_">> \o RepD(2),
    RepD(8) \o <<"_">> \o RepD(4) >>

TokenMatches(tok, c) == IF tok = "D" THEN c \in Digits ELSE c = tok

MatchesAt(pattern, s, at) ==
    /\ at + Len(pattern) - 1 <= Len(s)
    /\ \A k \in 1..Len(pattern) : TokenMatches(pattern[k], s[at + k - 1])

\* re.search(pattern, s).group(): the leftmost match, None when there is none
ReSearch(pattern, s) ==
    LET starts == {at \in 1..Len(s) : MatchesAt(pattern, s, at)}
    IN  IF starts = {} THEN None
        ELSE LET at == CHOOSE a \in starts : \A b \in starts : a <= b
             IN  SubSeq(s, at, at + Len(pattern) - 1)

Num2(s, at) == DigitVal(s[at]) * 10 + DigitVal(s[at + 1])
Num4(s, at) == Num2(s, at) * 100 + Num2(s, at + 2)

\* datetime.strptime(s, '%Y%m%d').date(); None stands for ValueError.
\* s is a regex match, so every field has its full width.
StrptimeCompact(s) ==
    IF /\ Len(s) = 8
       /\ \A k \in 1..8 : s[k] \in Digits
       /\ ValidDate(Num4(s, 1), Num2(s, 5), Num2(s, 7))
    THEN <<Num4(s, 1), Num2(s, 5), Num2(s, 7)>>
    ELSE None

\* datetime.strptime(s, '%Y-%m-%d').date(); None stands for ValueError
\* (a separator other than '-', unconverted trailing data, no such day).
StrptimeDashed(s) ==
    IF /\ Len(s) = 10
       /\ \A k \in {1, 2, 3, 4, 6, 7, 9, 10} : s[k] \in Digits
       /\ s[5] = "-" /\ s[8] = "-"
       /\ ValidDate(Num4(s, 1), Num2(s, 6), Num2(s, 9))
    THEN <<Num4(s, 1), Num2(s, 6), Num2(s, 9)>>
    ELSE None

\* the body of the try block for one match
ParseMatch(m) == IF Len(m) = 8 THEN StrptimeCompact(m) ELSE StrptimeDashed(m)

RECURSIVE ParseFrom(_, _)
ParseFrom(k, filename) ==
    IF k > Len(patterns) THEN None
    ELSE LET m == ReSearch(patterns[k], filename)
         IN  IF m # None /\ ParseMatch(m) # None
             THEN ParseMatch(m)
             ELSE ParseFrom(k + 1, filename)

parse_date_from_filename(filename) == ParseFrom(1, filename)

\* process_backups, the choice of the backup date of one directory entry
ResolveDate(use_filename, e) ==
    IF use_filename
    THEN LET d == parse_date_from_filename(e.name)
         IN  IF d = None THEN e.mtime ELSE d
    ELSE e.mtime


(***************************************************************************)
(* should_preserve                                                         *)
(***************************************************************************)
\* should_preserve with the daily window starting at age 0
should_preserve_no_future(file_date, today, a) ==
    LET age == Age(file_date, today)
    IN  (IF 0 <= age /\ age <= a.max_age_daily THEN <<"daily">> ELSE <<>>)
     \o (IF a.max_age_daily < age /\ age <= a.max_age_weekly
         THEN <<"weekly">> ELSE <<>>)
     \o (IF age <= a.max_age_monthly /\ file_date[3] = 1
         THEN <<"monthly">> ELSE <<>>)
     \o (IF age <= a.max_age_yearly /\ file_date[2] = 1 /\ file_date[3] = 1
         THEN <<"yearly">> ELSE <<>>)

\* should_preserve with the monthly rule not looking at the day of the month
should_preserve_monthly_any_day(file_date, today, a) ==
    LET age == Age(file_date, today)
    IN  (IF age <= a.max_age_daily THEN <<"daily">> ELSE <<>>)
     \o (IF a.max_age_daily < age /\ age <= a.max_age_weekly
         THEN <<"weekly">> ELSE <<>>)
     \o (IF age <= a.max_age_monthly
         THEN <<"monthly">> ELSE <<>>)
     \o (IF age <= a.max_age_yearly /\ file_date[2] = 1 /\ file_date[3] = 1
         THEN <<"yearly">> ELSE <<>>)

\* the reasons list; keep is "Len > 0", the reason string is its join
should_preserve(file_date, today, a) ==
    LET age == Age(file_date, today)
    IN  (IF age <= a.max_age_daily THEN <<"daily">> ELSE <<>>)
     \o (IF a.max_age_daily < age /\ age <= a.max_age_weekly
         THEN <<"weekly">> ELSE <<>>)
     \o (IF age <= a.max_age_monthly /\ file_date[3] = 1
         THEN <<"monthly">> ELSE <<>>)
     \o (IF age <= a.max_age_yearly /\ file_date[2] = 1 /\ file_date[3] = 1
         THEN <<"yearly">> ELSE <<>>)

\* "tier" in reason, on the joined string: no tier name contains another
InReason(tier, reason) == \E k \in 1..Len(reason) : reason[k] = tier

(***************************************************************************)
(* process_backups                                                         *)
(***************************************************************************)
\* the collection loop: directories only, in listing order
RECURSIVE CollectBackups(_, _)
CollectBackups(a, lst) ==
    IF lst = <<>> THEN <<>>
    ELSE LET e == Head(lst)
         IN  (IF e.isdir
              THEN <<[name |-> e.name, date |-> ResolveDate(a.use_filename, e)]>>
              ELSE <<>>)
             \o CollectBackups(a, Tail(lst))

\* list.sort(key=date, reverse=True) is stable: equal dates keep their order
RECURSIVE InsertByDate(_, _)
InsertByDate(x, sorted) ==
    IF sorted = <<>> THEN <<x>>
    ELSE IF ToOrdinal(Head(sorted).date) >= ToOrdinal(x.date)
         THEN <<Head(sorted)>> \o InsertByDate(x, Tail(sorted))
         ELSE <<x>> \o sorted

RECURSIVE SortBackups(_)
SortBackups(bs) ==
    IF bs = <<>> THEN <<>>
    ELSE InsertByDate(bs[Len(bs)], SortBackups(SubSeq(bs, 1, Len(bs) - 1)))

\* the most week keys the classification loop lets into weekly_preserved
WeeklyCap == 2

\* one iteration of the classification loop
ClassifyOne(b, acc, today, a) ==
    LET reason   == should_preserve(b.date, today, a)
        week_key == IsoCalendar(b.date)
        keepRec  == [name |-> b.name, date |-> b.date, reason |-> reason]
    IN  IF Len(reason) > 0
        THEN IF InReason("weekly", reason)
             THEN IF /\ week_key \notin acc.weekly_preserved
                     /\ Cardinality(acc.weekly_preserved) < WeeklyCap
                  THEN [acc EXCEPT !.weekly_preserved = @ \cup {week_key},
                                   !.preserved = Append(@, keepRec)]
                  ELSE [acc EXCEPT !.deleted = Append(@, b)]
             ELSE [acc EXCEPT !.preserved = Append(@, keepRec)]
        ELSE [acc EXCEPT !.deleted = Append(@, b)]

RECURSIVE ClassifyFrom(_, _, _, _, _)
ClassifyFrom(k, bs, acc, today, a) ==
    IF k > Len(bs) THEN acc
    ELSE ClassifyFrom(k + 1, bs, ClassifyOne(bs[k], acc, today, a), today, a)

\* the whole function: [preserved, deleted] (weekly_preserved is a local)
ProcessBackups(a, lst, today) ==
    ClassifyFrom(1, SortBackups(CollectBackups(a, lst)),
                 [preserved |-> <<>>, deleted |-> <<>>, weekly_preserved |-> {}],
                 today, a)

(***************************************************************************)
(* main: validation                                                        *)
(***************************************************************************)
\* the three os.path / os.access checks all pass
PathOk(a) == a.filepath = "ok"

\* the negation of the condition that calls parser.error
ThresholdsOk(a) ==
    ~ (\/ a.max_age_daily > a.max_age_weekly
       \/ a.max_age_weekly > a.max_age_monthly
       \/ a.max_age_monthly > a.max_age_yearly)

\* the dry-run flag ignored
MutatesFilesystem_always(a) == TRUE

\* both dry-run guards: main calls delete_backups only when dry_run is unset,
\* and delete_backups returns at once when it is set
MutatesFilesystem(a) == ~ a.dry_run

(***************************************************************************)
(* delete_backups                                                          *)
(***************************************************************************)
LowerChar(c) ==
    CASE c = "Y" -> "y" [] c = "E" -> "e" [] c = "S" -> "s"
      [] c = "N" -> "n" [] c = "O" -> "o" [] OTHER -> c

\* str.lower()
Lower(s) == [k \in 1..Len(s) |-> LowerChar(s[k])]

\* anything but "no" taken for consent
Confirmed_unless_no(answer) == Lower(answer) # <<"n", "o">>

\* the negation of "confirm != 'yes'" on the lower-cased input
Confirmed(answer) == Lower(answer) = <<"y", "e", "s">>

\* the loop walking the preserved list
DeleteTarget_from_preserved(del, k) ==
    IF k <= Len(preserved) THEN preserved[k].name ELSE del[k].name

\* the path the k-th iteration of the deletion loop hands to remove_directory
DeleteTarget(del, k) == del[k].name

\* shutil.rmtree inside remove_directory: the tree is gone only on success
RemoveTree(files, name, ok) == IF ok THEN files \ {name} ELSE files

\* an uncaught failure leaving the loop
AfterRemove_abort(k, ok, total) == IF ok THEN k + 1 ELSE total + 1

\* the loop goes on to the next item whatever remove_directory met:
\* it catches every Exception
AfterRemove(k, ok, total) == k + 1

(***************************************************************************)
(* Inputs of a run                                                         *)
(***************************************************************************)
\* at most this many entries in the target directory
MaxEntries == 3

Today == <<2024, 2, 15>>

\* directory entries the target directory may hold
Pool == {
    [name  |-> <<"b", "2", "0", "2", "4", "-", "0", "2", "-", "2", "0">>,
     isdir |-> TRUE,  mtime |-> <<2024, 2, 10>>],
    [name  |-> <<"2", "0", "2", "4", "-", "0", "2", "-", "0", "3">>,
     isdir |-> TRUE,  mtime |-> <<2024, 2, 3>>],
    [name  |-> <<"2", "0", "2", "4", "-", "0", "2", "-", "0", "1", "_", "1", "0", "-", "3", "0">>,
     isdir |-> TRUE,  mtime |-> <<2024, 2, 1>>],
    [name  |-> <<"2", "0", "2", "3", "1", "2", "1", "5">>,
     isdir |-> TRUE,  mtime |-> <<2024, 1, 24>>],
    [name  |-> <<"2", "0", "2", "4", "_", "0", "1", "_", "1", "7">>,
     isdir |-> TRUE,  mtime |-> <<2024, 1, 16>>],
    [name  |-> <<"x">>,
     isdir |-> TRUE,  mtime |-> <<2024, 1, 1>>],
    [name  |-> <<"f", "2", "0", "2", "4", "0", "1", "0", "1">>,
     isdir |-> FALSE, mtime |-> <<2023, 11, 11>>] }

RECURSIVE ListingsOfLen(_)
ListingsOfLen(n) ==
    IF n = 0 THEN {<<>>}
    ELSE {Append(l, e) : l \in ListingsOfLen(n - 1), e \in Pool}

Distinct(l) == \A j, k \in 1..Len(l) : j # k => l[j].name # l[k].name

\* os.listdir returns the entries in arbitrary order
Listings == UNION {{l \in ListingsOfLen(n) : Distinct(l)} : n \in 0..MaxEntries}

\* <<max_age_daily, max_age_weekly, max_age_monthly, max_age_yearly>>
Thresholds == {<<5, 40, 1000, 2000>>, <<30, 365, 1095, 1095>>, <<40, 5, 1000, 2000>>}

PathStates == {"absent", "missing", "notdir", "unreadable", "ok"}

ArgsSet ==
    {[filepath |-> p, dry_run |-> dr, use_filename |-> uf, force |-> fo,
      max_age_daily |-> t[1], max_age_weekly |-> t[2],
      max_age_monthly |-> t[3], max_age_yearly |-> t[4]] :
        p \in PathStates, dr \in BOOLEAN, uf \in BOOLEAN, fo \in BOOLEAN,
        t \in Thresholds}

\* what the user may type at the prompt
Answers == {<<"y", "e", "s">>, <<"Y", "E", "S">>, <<"Y", "e", "s">>,
            <<"y">>, <<"n", "o">>, <<>>}

Names(l) == {l[k].name : k \in 1..Len(l)}

NoArtifact == [name |-> <<>>, isdir |-> FALSE, mtime |-> Today,
               use_filename |-> FALSE, written |-> None]

Init ==
    /\ args \in ArgsSet
    /\ listing \in Listings
    \* only a readable directory has a listing
    /\ (args.filepath # "ok") => (listing = <<>>)
    /\ current_date = Today
    /\ fs = Names(listing)
    /\ pc = "start"
    /\ scanned = FALSE
    /\ preserved = <<>>
    /\ deleted = <<>>
    /\ report = <<>>
    /\ confirm = <<>>
    /\ i = 0
    /\ attempts = <<>>
    /\ log = <<>>
    /\ summary = <<>>
    /\ exit_status = -1
    /\ artifact = NoArtifact
    /\ backup_date = None

(***************************************************************************)
(* main                                                                    *)
(***************************************************************************)
Exit(status) ==
    /\ pc' = "done"
    /\ exit_status' = status

\* no positional argument: print the help and return
main_no_filepath ==
    /\ pc = "start"
    /\ args.filepath = "absent"
    /\ Exit(0)
    /\ UNCHANGED <<args, listing, current_date, fs, scanned, preserved, deleted,
                   report, confirm, i, attempts, log, summary, artifact, backup_date>>

\* the path does not exist, is no directory or is not readable:
\* print "Error: ..." and return
main_path_error ==
    /\ pc = "start"
    /\ args.filepath \in {"missing", "notdir", "unreadable"}
    /\ Exit(0)
    /\ UNCHANGED <<args, listing, current_date, fs, scanned, preserved, deleted,
                   report, confirm, i, attempts, log, summary, artifact, backup_date>>

\* parser.error: usage on stderr, SystemExit(2)
main_threshold_error ==
    /\ pc = "start"
    /\ PathOk(args)
    /\ ~ ThresholdsOk(args)
    /\ Exit(2)
    /\ UNCHANGED <<args, listing, current_date, fs, scanned, preserved, deleted,
                   report, confirm, i, attempts, log, summary, artifact, backup_date>>

process_backups ==
    /\ pc = "start"
    /\ PathOk(args)
    /\ ThresholdsOk(args)
    /\ LET r == ProcessBackups(args, listing, current_date)
       IN  /\ preserved' = r.preserved
           /\ deleted' = r.deleted
    /\ scanned' = TRUE
    /\ pc' = "analysed"
    /\ UNCHANGED <<args, listing, current_date, fs, report, confirm, i, attempts,
                   log, summary, exit_status, artifact, backup_date>>

print_results ==
    /\ pc = "analysed"
    /\ report' = <<[total    |-> Len(preserved) + Len(deleted),
                    preserve |-> Len(preserved),
                    delete   |-> Len(deleted)]>>
    /\ pc' = "reported"
    /\ UNCHANGED <<args, listing, current_date, fs, scanned, preserved, deleted,
                   confirm, i, attempts, log, summary, exit_status, artifact,
                   backup_date>>

\* main's else branch: nothing is deleted in a dry run
main_dry_run ==
    /\ pc = "reported"
    /\ ~ MutatesFilesystem(args)
    /\ log' = Append(log, <<"info", "dry run", None>>)
    /\ Exit(0)
    /\ UNCHANGED <<args, listing, current_date, fs, scanned, preserved, deleted,
                   report, confirm, i, attempts, summary, artifact, backup_date>>

\* delete_backups up to the prompt
delete_backups_begin ==
    /\ pc = "reported"
    /\ MutatesFilesystem(args)
    /\ IF args.force
       THEN /\ log' = log \o <<<<"info", "skip confirmation", None>>,
                               <<"info", "start", None>>>>
            /\ i' = 1
            /\ pc' = "deleting"
       ELSE /\ pc' = "prompt"
            /\ UNCHANGED <<log, i>>
    /\ UNCHANGED <<args, listing, current_date, fs, scanned, preserved, deleted,
                   report, confirm, attempts, summary, exit_status, artifact,
                   backup_date>>

\* input() returns what the user typed
delete_backups_confirm ==
    /\ pc = "prompt"
    /\ \E answer \in Answers :
        /\ confirm' = <<answer>>
        /\ IF Confirmed(answer)
           THEN /\ log' = Append(log, <<"info", "start", None>>)
                /\ i' = 1
                /\ pc' = "deleting"
                /\ UNCHANGED exit_status
           ELSE /\ log' = Append(log, <<"info", "cancelled", None>>)
                /\ Exit(0)
                /\ UNCHANGED i
    /\ UNCHANGED <<args, listing, current_date, fs, scanned, preserved, deleted,
                   report, attempts, summary, artifact, backup_date>>

\* input() raises EOFError (standard input closed): the traceback ends the run
delete_backups_eof ==
    /\ pc = "prompt"
    /\ Exit(1)
    /\ UNCHANGED <<args, listing, current_date, fs, scanned, preserved, deleted,
                   report, confirm, i, attempts, log, summary, artifact, backup_date>>

\* one iteration of the deletion loop, remove_directory included
remove_directory ==
    /\ pc = "deleting"
    /\ i <= Len(deleted)
    /\ \E ok \in BOOLEAN :
        LET name == DeleteTarget(deleted, i)
        IN  /\ fs' = RemoveTree(fs, name, ok)
            /\ attempts' = Append(attempts, [name |-> name, ok |-> ok])
            /\ log' = Append(log, IF ok THEN <<"info", "deleted", name>>
                                        ELSE <<"error", "error deleting", name>>)
            /\ i' = AfterRemove(i, ok, Len(deleted))
    /\ UNCHANGED <<args, listing, current_date, pc, scanned, preserved, deleted,
                   report, confirm, summary, exit_status, artifact, backup_date>>

\* after the loop: "Deletion complete. {total} backup(s) processed."
delete_backups_complete ==
    /\ pc = "deleting"
    /\ i > Len(deleted)
    /\ summary' = <<[processed |-> Len(deleted)]>>
    /\ log' = Append(log, <<"info", "complete", None>>)
    /\ Exit(0)
    /\ UNCHANGED <<args, listing, current_date, fs, scanned, preserved, deleted,
                   report, confirm, i, attempts, artifact, backup_date>>

Next ==
    \/ main_no_filepath
    \/ main_path_error
    \/ main_threshold_error
    \/ process_backups
    \/ print_results
    \/ main_dry_run
    \/ delete_backups_begin
    \/ delete_backups_confirm
    \/ delete_backups_eof
    \/ remove_directory
    \/ delete_backups_complete

Spec == Init /\ [][Next]_vars

(***************************************************************************)
(* Date resolution on its own: one directory entry, one call               *)
(***************************************************************************)
DigitChar(n) ==
    CASE n = 0 -> "0" [] n = 1 -> "1" [] n = 2 -> "2" [] n = 3 -> "3"
      [] n = 4 -> "4" [] n = 5 -> "5" [] n = 6 -> "6" [] n = 7 -> "7"
      [] n = 8 -> "8" [] n = 9 -> "9"

Fmt2(n) == <<DigitChar(n \div 10), DigitChar(n % 10)>>
Fmt4(n) == Fmt2(n \div 100) \o Fmt2(n % 100)

\* a base name that writes y, m, d with separator sep ("" for YYYYMMDD),
\* with or without a time of day after it
WrittenName(prefix, y, m, d, sep, withTime) ==
    LET sp == IF sep = "" THEN <<>> ELSE <<sep>>
    IN  prefix \o Fmt4(y) \o sp \o Fmt2(m) \o sp \o Fmt2(d)
        \o (IF withTime
            THEN <<"_">> \o Fmt2(15) \o sp \o Fmt2(30)
            ELSE <<>>)
        \o <<".", "t", "a", "r">>

ResolveMtime == <<2024, 2, 14>>

ResolveInputs ==
    {[name  |-> WrittenName(prefix, y, m, d, sep, wt),
      isdir |-> TRUE, mtime |-> ResolveMtime, use_filename |-> uf,
      written |-> IF ValidDate(y, m, d) THEN <<y, m, d>> ELSE None] :
        prefix \in {<<>>, <<"b", "k", "_">>, <<"v", "2", "-">>},
        y \in {2023, 2024}, m \in {0, 2, 12, 13}, d \in {1, 29, 30, 31, 40},
        sep \in {"-", "_", ""}, wt \in BOOLEAN, uf \in BOOLEAN}
    \cup
    {[name  |-> n, isdir |-> TRUE, mtime |-> ResolveMtime, use_filename |-> uf,
      written |-> None] :
        n \in {<<"b", "a", "c", "k", "u", "p">>, <<"v", "1", "2", "3">>},
        uf \in BOOLEAN}

InitResolve ==
    /\ artifact \in ResolveInputs
    /\ backup_date = None
    /\ pc = "resolve"
    /\ args = [filepath |-> "ok", dry_run |-> TRUE, use_filename |-> artifact.use_filename,
               force |-> FALSE, max_age_daily |-> 30, max_age_weekly |-> 365,
               max_age_monthly |-> 1095, max_age_yearly |-> 1095]
    /\ listing = <<[name |-> artifact.name, isdir |-> artifact.isdir,
                    mtime |-> artifact.mtime]>>
    /\ current_date = Today
    /\ fs = Names(listing)
    /\ scanned = FALSE
    /\ preserved = <<>>
    /\ deleted = <<>>
    /\ report = <<>>
    /\ confirm = <<>>
    /\ i = 0
    /\ attempts = <<>>
    /\ log = <<>>
    /\ summary = <<>>
    /\ exit_status = -1

\* the date process_backups gives the entry
resolve_date ==
    /\ pc = "resolve"
    /\ backup_date' = ResolveDate(args.use_filename, listing[1])
    /\ pc' = "resolved"
    /\ UNCHANGED <<args, listing, current_date, fs, scanned, preserved, deleted,
                   report, confirm, i, attempts, log, summary, exit_status, artifact>>

NextResolve == resolve_date

SpecResolve == InitResolve /\ [][NextResolve]_vars

(***************************************************************************)
(* Properties                                                              *)
(***************************************************************************)
\* the scanned artifacts with their backup dates, as the collection loop sees them
ScannedBackups ==
    LET bs == CollectBackups(args, listing) IN {bs[k] : k \in 1..Len(bs)}

PreservedNames == {preserved[k].name : k \in 1..Len(preserved)}
DeletedNames   == {deleted[k].name : k \in 1..Len(deleted)}
Unscanned      == {listing[k].name : k \in {j \in 1..Len(listing) : ~ listing[j].isdir}}

AgeOf(b) == Age(b.date, current_date)
InDailyWindow(b)  == AgeOf(b) <= args.max_age_daily
InWeeklyWindow(b) == args.max_age_daily < AgeOf(b) /\ AgeOf(b) <= args.max_age_weekly
InMonthlyWindow(b) == AgeOf(b) <= args.max_age_monthly

WeekGroup(b) ==
    {c \in ScannedBackups : InWeeklyWindow(c) /\ IsoCalendar(c.date) = IsoCalendar(b.date)}
MonthGroup(b) ==
    {c \in ScannedBackups : /\ InMonthlyWindow(c)
                            /\ c.date[1] = b.date[1] /\ c.date[2] = b.date[2]}
MostRecentIn(b, group) == \A c \in group : ToOrdinal(c.date) <= ToOrdinal(b.date)

PreservedFor(tier, b) ==
    \E k \in 1..Len(preserved) :
        preserved[k].name = b.name /\ InReason(tier, preserved[k].reason)

\* the answers that read "yes" whatever their case
AcceptingAnswers == {<<"y", "e", "s">>, <<"Y", "E", "S">>, <<"Y", "e", "s">>}
Accepted == confirm # <<>> /\ confirm[1] \in AcceptingAnswers

\* C1: every ISO week that has an artifact in the weekly window keeps exactly
\* one artifact of that week's group under the weekly rule, the one with the most
\* recent backup date, however many such weeks the directory holds.
C1_OneSurvivorPerWeek ==
    scanned =>
        \A b \in ScannedBackups :
            InWeeklyWindow(b) =>
                /\ Cardinality({c \in WeekGroup(b) : PreservedFor("weekly", c)}) = 1
                /\ \A c \in WeekGroup(b) :
                       PreservedFor("weekly", c) => MostRecentIn(c, WeekGroup(b))

\* C2: every artifact whose age is at most max_age_daily, future-dated ones
\* included, is in the preserved list and not in the delete list.
C2_DailyAlwaysPreserved ==
    scanned =>
        \A b \in ScannedBackups :
            InDailyWindow(b) => b.name \in PreservedNames /\ b.name \notin DeletedNames

C2_Witness ==
    /\ scanned
    /\ deleted # <<>>
    /\ \E b \in ScannedBackups : AgeOf(b) < 0 /\ b.name \in PreservedNames

\* C3 as stated: in each calendar month the most recent artifact within
\* max_age_monthly is preserved for the monthly reason, and no other artifact of
\* that month has the monthly reason.
C3_MonthlyMostRecent ==
    scanned =>
        \A b \in ScannedBackups :
            InMonthlyWindow(b) =>
                /\ \E c \in MonthGroup(b) :
                       MostRecentIn(c, MonthGroup(b)) /\ PreservedFor("monthly", c)
                /\ PreservedFor("monthly", b) => MostRecentIn(b, MonthGroup(b))

\* C3 as amended: the monthly reason goes to exactly the artifacts within
\* max_age_monthly dated on the first day of a month, and such an artifact is
\* preserved for it whenever it lies outside the weekly window.
C3_MonthlyFirstOfMonth ==
    scanned =>
        /\ \A k \in 1..Len(preserved) :
               InReason("monthly", preserved[k].reason)
                   <=> (InMonthlyWindow(preserved[k]) /\ preserved[k].date[3] = 1)
        /\ \A b \in ScannedBackups :
               (InMonthlyWindow(b) /\ b.date[3] = 1 /\ ~ InWeeklyWindow(b))
                   => PreservedFor("monthly", b)

C3_Witness ==
    /\ scanned
    /\ \E b, c \in ScannedBackups :
        /\ PreservedFor("monthly", b)
        /\ c \in MonthGroup(b)
        /\ ToOrdinal(c.date) > ToOrdinal(b.date)
        /\ ~ PreservedFor("monthly", c)

\* C4: the delete list is the one the other setting of --dry-run computes; in a
\* dry run nothing is removed and no removal is attempted, and the report counts
\* the whole delete list as to delete.
C4_DryRunParity ==
    /\ scanned =>
           deleted = ProcessBackups([args EXCEPT !.dry_run = ~ @],
                                    listing, current_date).deleted
    /\ args.dry_run => (fs = Names(listing) /\ attempts = <<>>)
    /\ (args.dry_run /\ report # <<>>) => report[1].delete = Len(deleted)

C4_Witness ==
    /\ pc = "done"
    /\ args.dry_run
    /\ Len(deleted) >= 2
    /\ report # <<>> /\ report[1].delete = Len(deleted)
    /\ fs = Names(listing)

\* C5: without --dry-run and --force nothing is removed, and no removal is
\* attempted, unless the prompt has been answered with a yes.
C5_NothingRemovedWithoutYes ==
    (~ args.dry_run /\ ~ args.force /\ ~ Accepted)
        => (fs = Names(listing) /\ attempts = <<>>)

C5_Witness ==
    /\ pc = "done"
    /\ ~ args.dry_run /\ ~ args.force
    /\ confirm = << <<"y">> >>
    /\ Len(deleted) >= 2
    /\ fs = Names(listing)

\* the run was given a bad path, or a good path and thresholds out of order
ValidationFailure ==
    \/ args.filepath \in {"missing", "notdir", "unreadable"}
    \/ (args.filepath = "ok" /\ ~ ThresholdsOk(args))

\* C6: a run that fails validation (bad path, or thresholds out of order) ends
\* with a non-zero exit status and without scanning or removing anything.
C6_ValidationFailureExitsNonZero ==
    (pc = "done" /\ ValidationFailure)
        => (exit_status # 0 /\ ~ scanned /\ fs = Names(listing))

\* a deletion that ran to its end: forced, or confirmed at the prompt
DeletionRan == pc = "done" /\ scanned /\ ~ args.dry_run /\ (args.force \/ Accepted)

AttemptedInOrder(n) ==
    /\ Len(attempts) = n
    /\ \A k \in 1..n : attempts[k].name = deleted[k].name

SuccessesGone == \A k \in 1..Len(attempts) : attempts[k].ok => attempts[k].name \notin fs

C8_WrittenDateResolved ==
    (pc = "resolved" /\ artifact.use_filename) =>
        backup_date = (IF artifact.written # None THEN artifact.written
                                                  ELSE artifact.mtime)

\* C9: an artifact is preserved exactly when should_preserve gives it a reason.
C9_PreserveIffReason ==
    scanned =>
        \A b \in ScannedBackups :
            (b.name \in PreservedNames)
                <=> (Len(should_preserve(b.date, current_date, args)) > 0)

\* C10: only artifacts of the delete list are ever removed or handed to
\* remove_directory; the two lists are disjoint; preserved artifacts and
\* entries that were not scanned exist throughout.
C10_OnlyDeleteListRemoved ==
    /\ (Names(listing) \ fs) \subseteq DeletedNames
    /\ \A k \in 1..Len(attempts) : attempts[k].name \in DeletedNames
    /\ PreservedNames \cap DeletedNames = {}
    /\ PreservedNames \subseteq fs
    /\ Unscanned \subseteq fs

C10_Witness ==
    /\ pc = "done"
    /\ fs # Names(listing)
    /\ preserved # <<>>
    /\ Unscanned # {}

=============================================================================
